---- MODULE Spec2Model ----
(***************************************************************************)
(* Verification model of the Bundlr validator's audit pipeline             *)
(* (src/cron/bundle.rs, src/cron/arweave.rs) and of its store              *)
(* (src/database/queries.rs).                                              *)
(*                                                                         *)
(* Option<T> is modelled as a set with at most one element: None is {}     *)
(* and Some(x) is {x}.  A table is a function from the primary keys that   *)
(* are present to the rows.  A call that can panic returns a record whose  *)
(* tag is "Panic"; one that returns Result returns tag "Ok" or "Err".      *)
(***************************************************************************)
EXTENDS Integers, Sequences, FiniteSets, TLC

\* ---------------------------------------------------------------- bounds
\* Block heights range over 1..MaxBlock.
MaxBlock == 2
\* Length of the list the gateway returns in one listing.
MaxBundles == 2
\* Number of items a parsed bundle holds.
MaxItems == 2
\* Epochs (current epoch and the epoch of stored rows) range over 0..MaxEpoch.
MaxEpoch == 7
\* Retention (epoch_amount) ranges over 0..MaxRetention.
MaxRetention == 4
\* Passes of a replayed audit.
MaxPasses == 2
\* Validator peers configured (rows of table `validators`).
MaxPeers == 2
\* vote_slash calls counted.
MaxVotes == 3

\* ------------------------------------------------------------ data types
TxIds == {"t1", "t2"}
BundleIds == {"b1", "b2"}
Blocks == 1..MaxBlock
Epochs == 0..MaxEpoch

None == {}
Some(x) == {x}
Unwrap(o) == CHOOSE x \in o : TRUE

\* ctx.bundler().address and the key the bundler signs receipts with.
BundlerAddress == "bundler"
BundlerKey == "bundler_key"
OtherKey == "other_key"

\* A signature as stored (bytes) or carried by a receipt (text).
\*   [signer, tx_id, block]  text that decodes as base64url and is an RSA-PSS
\*                           signature by `signer` over deep_hash("Bundlr","1",tx_id,block)
\*   NotBase64               UTF-8 text that is not base64url
\*   NotUtf8                 bytes that are not UTF-8
Sign(key, tx_id, block) == [kind |-> "pss", signer |-> key, tx_id |-> tx_id, block |-> block]
NotBase64 == [kind |-> "not_base64"]
NotUtf8 == [kind |-> "not_utf8"]

\* arweave::Transaction: only id and block.height are read by the audit.
ArweaveTxs == [id : BundleIds, block : {None} \cup {Some(h) : h \in Blocks}]

\* The lists a gateway can return: at most MaxBundles distinct transactions,
\* b1 listed before b2.
Listings ==
  UNION {{s \in [1..n -> ArweaveTxs] :
            \A i, j \in 1..n : i < j => s[i].id = "b1" /\ s[j].id = "b2"}
         : n \in 0..MaxBundles}

\* The item lists a parsed bundle can hold (Item.tx_id of each item).
ItemSeqs ==
  UNION {{s \in [1..n -> TxIds] : \A i, j \in 1..n : i # j => s[i] # s[j]}
         : n \in 0..MaxItems}

VARIABLES
  bundle,         \* table `bundle`: id -> row
  transactions,   \* table `transactions`: id -> row
  slashVotes,     \* number of vote_slash calls made against the bundler
  pc,             \* position of the audit task
  txs_req,        \* validate_bundler: the bundles left to its for loop, the current one first
  current_block,  \* validate_bundle: Option<u128>
  bundle_txs,     \* validate_bundle: the items left to its for loop, the current one first
  tx,             \* verify_bundle_tx: what get_tx returned ("Ok", "NotFound"), "none" outside it
  tx_receipt,     \* verify_bundle_tx: Option<TxReceipt>
  result,         \* what the last finished pass returned
  lastOp,         \* the call logged in the last step and what it returned, if there was one
  seen,           \* history: what this pass has met so far
  passVotes,      \* history: vote_slash calls made by this pass
  replay,         \* the chain state a replayed audit runs on, and its passes so far
  inflight        \* number of runs of the audit task body in progress

vars == <<bundle, transactions, slashVotes, pc, txs_req, current_block, bundle_txs,
          tx, tx_receipt, result, lastOp, seen, passVotes, replay, inflight>>

passVars == <<pc, txs_req, current_block, bundle_txs, tx, tx_receipt, result>>

\* ------------------------------------------------------------- the store
Panic == [tag |-> "Panic"]

\* queries.rs get_bundle / get_tx: first row with the id, or Err(NotFound).
get_bundle(tbl, b_id) ==
  IF b_id \in DOMAIN tbl THEN [tag |-> "Ok", row |-> tbl[b_id]] ELSE [tag |-> "Err"]

get_tx(tbl, tx_id) ==
  IF tx_id \in DOMAIN tbl THEN [tag |-> "Ok", row |-> tbl[tx_id]] ELSE [tag |-> "Err"]

\* A plain INSERT: the primary key rejects a second row with the id, execute
\* returns Err and unwrap_or_else panics.
insert_bundle_in_db(tbl, new_bundle) ==
  IF new_bundle.id \in DOMAIN tbl
    THEN Panic
    ELSE [tag |-> "Ok", table |-> (new_bundle.id :> new_bundle) @@ tbl]

insert_tx_in_db(tbl, new_tx) ==
  IF new_tx.id \in DOMAIN tbl
    THEN Panic
    ELSE [tag |-> "Ok", table |-> (new_tx.id :> new_tx) @@ tbl]

\* The epochs counted upwards from the current one.
EpochAtForward(current_epoch, i) == current_epoch + i
\* (0..epoch_amount).map(|i| Epoch(current_epoch - i)): the i-th element, i from 0.
\* u128 subtraction: a negative value -k stands for the wrapped 2^128 - k.
EpochAt(current_epoch, i) == current_epoch - i

\* The subtraction underflows for some i of the range.
Underflows(current_epoch, epoch_amount) == epoch_amount > current_epoch + 1

\* The range with its upper end included.
DeleteRangeOffByOne(epoch_amount) == 0..epoch_amount
\* The range 0..epoch_amount of Rust excludes its upper end.
DeleteRange(epoch_amount) == 0..(epoch_amount - 1)

\* The rows `transactions.filter(epoch.ne_all(epochs))` selects.
NeAll(tbl, epochs) == {id \in DOMAIN tbl : \A e \in epochs : tbl[id].epoch # e}

\* delete_txs; overflow_checks is the build's setting (on: the underflow
\* panics, off: it wraps).
delete_txs(tbl, current_epoch, epoch_amount, overflow_checks) ==
  IF overflow_checks /\ Underflows(current_epoch, epoch_amount)
    THEN Panic
    ELSE LET epochs == {EpochAt(current_epoch, i) : i \in DeleteRange(epoch_amount)}
             txs == NeAll(tbl, epochs)
         IN [tag |-> "Ok",
             table |-> [id \in DOMAIN tbl \ txs |-> tbl[id]],
             count |-> Cardinality(txs)]

\* lastOp when the last step was no logged call.
NoOp == [op |-> "none", e |-> 0, r |-> 0, ret |-> "none", count |-> 0]

\* ------------------------------------------------------ receipt verifier
\* BASE64URL_NOPAD.decode(signature).unwrap()
Base64UrlDecodes(signature) == signature.kind = "pss"

\* RSA-PSS/SHA-256 of the message deep_hash(["Bundlr", "1", tx_id, block.to_string()])
\* under PUBLIC; verifier.verify(&sig).unwrap_or(false).
PssVerifies(message, sig) ==
  sig.signer = BundlerKey /\ sig.tx_id = message.tx_id /\ sig.block = message.block

\* The verification skipped: every decodable signature passes.
VerifySkipped(receipt) ==
  IF ~Base64UrlDecodes(receipt.signature) THEN Panic ELSE [tag |-> "Ok", val |-> TRUE]

\* bundle.rs verify_tx_receipt: Ok(bool), or a panic of one of its unwraps.
verify_tx_receipt(receipt) ==
  IF ~Base64UrlDecodes(receipt.signature)
    THEN Panic
    ELSE [tag |-> "Ok",
          val |-> PssVerifies([tx_id |-> receipt.tx_id, block |-> receipt.block],
                              receipt.signature)]

\* The ways the process can be given the bundler's key (validator.rs:39-55):
\* a JWK file (bundler_key), or the modulus (bundler_public) read from the
\* environment variable BUNDLER_PUBLIC or from the flag, which wins over
\* the variable.  env_public is what std::env::var("BUNDLER_PUBLIC") holds.
CliConfigs ==
  LET keys == {BundlerKey, OtherKey}
  IN {[bundler_key |-> Some(k), bundler_public |-> None, env_public |-> None] : k \in keys}
       \cup {[bundler_key |-> None, bundler_public |-> Some(k), env_public |-> Some(k)]
              : k \in keys}
       \cup {[bundler_key |-> None, bundler_public |-> Some(k), env_public |-> e]
              : k \in keys, e \in {None} \cup {Some(o) : o \in keys}}

\* validator.rs:118-125: the key the process is configured with.
bundler_jwk(config) ==
  IF config.bundler_key # None THEN Unwrap(config.bundler_key)
  ELSE Unwrap(config.bundler_public)

\* bundle.rs:284-297: the key of the verifier, or the panic of
\* std::env::var("BUNDLER_PUBLIC").unwrap().
PUBLIC(config) ==
  IF config.env_public = None THEN Panic
  ELSE [tag |-> "Ok", key |-> Unwrap(config.env_public)]

\* bundle.rs verify_tx_receipt in a process started with config: the
\* signature is decoded first, PUBLIC is initialised on its first use.
verify_tx_receipt_as(config, receipt) ==
  IF ~Base64UrlDecodes(receipt.signature) THEN Panic
  ELSE IF PUBLIC(config).tag = "Panic" THEN Panic
  ELSE [tag |-> "Ok",
        val |-> /\ receipt.signature.signer = PUBLIC(config).key
                /\ receipt.signature.tx_id = receipt.tx_id
                /\ receipt.signature.block = receipt.block]

\* ---------------------------------------------------------- peer fallback
\* A peer list with one peer in it.
ConfiguredPeer == <<"peer">>

\* bundle.rs:247: the peers the fallback walks.
validator_peers == <<>>

\* What a peer can answer to GET {peer.url}/tx/{tx_id}: the body of a 2xx
\* is taken as it is, whatever transaction its receipt names.
PeerAnswers(tx_id) ==
  {[kind |-> "transport_error"], [kind |-> "status", ok |-> FALSE]}
    \cup {[kind |-> "status", ok |-> TRUE,
           receipt |-> [block |-> b, tx_id |-> t, signature |-> Sign(k, t, b)]]
          : b \in Blocks, k \in {BundlerKey, OtherKey}, t \in TxIds}

\* bundle.rs tx_exists_on_peers: the first peer, in order, whose answer is a 2xx.
tx_exists_on_peers(tx_id, answers) ==
  LET hits == {i \in 1..Len(validator_peers) :
                 answers[i].kind = "status" /\ answers[i].ok}
  IN IF hits = {}
       THEN [tag |-> "Err", err |-> "TxNotFound"]
       ELSE [tag |-> "Ok",
             receipt |-> answers[CHOOSE i \in hits : \A j \in hits : i <= j].receipt]

\* -------------------------------------------------------------- gateway
GatewayResponses ==
  {[kind |-> "transport_error"]}
    \cup {[kind |-> "status", status |-> s, body |-> <<>>, decodes |-> FALSE]
          : s \in {200, 400, 404, 500, 504, 503}}
    \cup {[kind |-> "status", status |-> 200, body |-> l, decodes |-> TRUE] : l \in Listings}

\* arweave.rs get_latest_transactions.
get_latest_transactions(response) ==
  IF response.kind = "transport_error" THEN Panic
  ELSE IF response.status = 200
         THEN IF response.decodes THEN [tag |-> "Ok", txs |-> response.body] ELSE Panic
  ELSE IF response.status = 400 THEN [tag |-> "Err", err |-> "MalformedQuery"]
  ELSE IF response.status = 404 THEN [tag |-> "Err", err |-> "TxsNotFound"]
  ELSE IF response.status = 500 THEN [tag |-> "Err", err |-> "InternalServerError"]
  ELSE IF response.status = 504 THEN [tag |-> "Err", err |-> "GatewayTimeout"]
  ELSE [tag |-> "Err", err |-> "UnknownErr"]

\* What the gateway can answer to the download of a bundle.
FetchOutcomes ==
  {[kind |-> "transport_error"], [kind |-> "http_error"], [kind |-> "corrupt"]}
    \cup {[kind |-> "bundle", items |-> s] : s \in ItemSeqs}

\* arweave.rs get_tx_data: the path, an error, or the panic of expect("request failed").
get_tx_data(outcome) ==
  IF outcome.kind = "transport_error" THEN Panic
  ELSE IF outcome.kind = "http_error" THEN [tag |-> "Err"]
  ELSE [tag |-> "Ok"]

\* A payload that does not parse taken for a bundle of one item.
ParsedAnyway(outcome) == IF outcome.kind = "bundle" THEN outcome.items ELSE <<"t1">>

\* verify_file_bundle as validate_bundle uses it: a parse error gives no items.
ParsedItems(outcome) == IF outcome.kind = "bundle" THEN outcome.items ELSE <<>>

\* ---------------------------------------------------------------- auditor
\* An absent block taken for height 1.
UnminedAsGenesis(b) == [tag |-> "Ok", val |-> IF b.block = None THEN Some(1) ELSE b.block]
\* bundle.rs check_bundle_block.
check_bundle_block(b) == [tag |-> "Ok", val |-> b.block]

\* A store_bundle that writes the row whether or not one exists.
StoreBundleUpsert(tbl, b, height) ==
  [tag |-> "Ok",
   table |-> [id \in DOMAIN tbl \cup {b.id} |->
                IF id = b.id
                  THEN [id |-> b.id, owner_address |-> BundlerAddress, block_height |-> height]
                  ELSE tbl[id]]]

\* bundle.rs store_bundle.
store_bundle(tbl, b, height) ==
  IF get_bundle(tbl, b.id).tag = "Ok"
    THEN [tag |-> "Ok", table |-> tbl]
    ELSE insert_bundle_in_db(tbl, [id |-> b.id,
                                   owner_address |-> BundlerAddress,
                                   block_height |-> height])

\* The comparison left out.
PromiseIgnored(block, height) == TRUE
\* bundle.rs:217, the comparison that admits a row.
PromiseKept(block, height) == block <= height

\* bundle.rs:222, the epoch the auditor writes.
AuditEpoch == 0

\* bundle.rs:220-228, the row verify_bundle_tx hands to insert_tx_in_db.
NewTransaction(receipt, item, cur_block) ==
  [id |-> receipt.tx_id,
   epoch |-> AuditEpoch,
   block_promised |-> receipt.block,
   block_actual |-> cur_block,
   signature |-> receipt.signature,
   validated |-> TRUE,
   bundle_id |-> Some(item)]

\* A verdict that takes an absent receipt for a fatal error.
MissingIsFatal(receipt_opt, cur_block) ==
  IF receipt_opt = None THEN "panic"
  ELSE LET receipt == Unwrap(receipt_opt)
           v == verify_tx_receipt(receipt)
       IN IF v.tag = "Panic" THEN "panic"
          ELSE IF ~v.val THEN "forged"
          ELSE IF PromiseKept(receipt.block, Unwrap(cur_block)) THEN "timely"
          ELSE "late"

\* The verdict verify_bundle_tx reaches on a receipt (bundle.rs:213-240).
Verdict(receipt_opt, cur_block) ==
  IF receipt_opt = None THEN "missing"
  ELSE LET receipt == Unwrap(receipt_opt)
           v == verify_tx_receipt(receipt)
       IN IF v.tag = "Panic" THEN "panic"
          ELSE IF ~v.val THEN "forged"
          ELSE IF PromiseKept(receipt.block, Unwrap(cur_block)) THEN "timely"
          ELSE "late"

\* -------------------------------------------------------------- actions
\* replay of an audit that is not replayed.
NoReplay == [on |-> FALSE, listing |-> <<>>, payload |-> <<>>, passes |-> 0, first |-> <<>>]

Init ==
  /\ bundle = <<>>
  /\ transactions = <<>>
  /\ slashVotes = 0
  /\ pc = "idle"
  /\ txs_req = <<>>
  /\ current_block = None
  /\ bundle_txs = <<>>
  /\ tx = "none"
  /\ tx_receipt = None
  /\ result = "none"
  /\ lastOp = NoOp
  /\ seen = {}
  /\ passVotes = 0
  /\ replay = NoReplay
  /\ inflight = 0

\* A panic ends the audit task where it stands.
Crash ==
  /\ pc' = "panicked"
  /\ UNCHANGED <<txs_req, current_block, bundle_txs, tx, tx_receipt>>

\* validate_bundler's for loop (bundle.rs:62-76) over list: its first bundle,
\* or the end of the loop.
EnterBundles(list) ==
  /\ current_block' = None
  /\ bundle_txs' = <<>>
  /\ tx' = "none"
  /\ tx_receipt' = None
  /\ txs_req' = list
  /\ pc' = IF list = <<>> THEN "return" ELSE "bundle"

\* validate_bundle returned Ok(()) or Err(FileError): the loop goes on.
NextBundle == EnterBundles(Tail(txs_req))

\* validate_bundle's for loop (bundle.rs:122-138) after the current item.
NextItem ==
  IF Tail(bundle_txs) # <<>>
    THEN /\ pc' = "lookup"
         /\ bundle_txs' = Tail(bundle_txs)
         /\ tx' = "none"
         /\ tx_receipt' = None
         /\ UNCHANGED <<txs_req, current_block>>
    ELSE NextBundle

\* The body called on a timer, its last run not awaited.
CronTickDetached == pc # "panicked"

\* create_cron's loop, `f().await` and then the sleep: the body is called
\* again once its last run has returned.
CronTick == pc = "idle"

\* The runs in progress after a step of the pass: a panic ends the run.
RunsAfter(pc_after) == IF pc_after = "panicked" THEN inflight - 1 ELSE inflight

\* bundle.rs:47-61: a pass starts with the listing.
validate_bundler_on(responses) ==
  /\ CronTick
  /\ \E response \in responses :
       LET r == get_latest_transactions(response)
       IN IF r.tag = "Panic"
            THEN /\ pc' = "panicked"
                 /\ result' = "none"
                 /\ inflight' = inflight
                 /\ UNCHANGED <<txs_req, current_block, bundle_txs, tx, tx_receipt>>
          ELSE IF r.tag = "Err"
            THEN /\ pc' = "idle"
                 /\ result' = "TxsFromAddressNotFound"
                 /\ inflight' = inflight
                 /\ UNCHANGED <<txs_req, current_block, bundle_txs, tx, tx_receipt>>
          ELSE /\ EnterBundles(r.txs)
               /\ result' = "none"
               /\ inflight' = inflight + 1
  /\ seen' = {}
  /\ passVotes' = 0
  /\ lastOp' = NoOp
  /\ UNCHANGED <<bundle, transactions, slashVotes>>

\* The answers of the store to the INSERT of a bundle row: the statement is
\* executed, or diesel's execute returns Err (queries.rs:32-34).
InsertAnswers == {"executed", "rejected"}

\* bundle.rs:88-99: the block check and the bundle row.  A rejected INSERT
\* panics inside insert_bundle_in_db (queries.rs:35) before store_bundle
\* can map it to BundleNotInsertedInDB.
validate_bundle_on(answers) ==
  /\ pc = "bundle"
  /\ LET b == Head(txs_req)
         block_ok == check_bundle_block(b)
     IN IF block_ok.val = None
          THEN /\ NextBundle
               /\ seen' = seen \cup {"unmined"}
               /\ UNCHANGED bundle
          ELSE \E answer \in answers :
               LET _store == IF answer = "rejected" /\ get_bundle(bundle, b.id).tag # "Ok"
                               THEN Panic
                               ELSE store_bundle(bundle, b, Unwrap(block_ok.val))
               IN IF _store.tag = "Panic"
                    THEN Crash /\ UNCHANGED <<bundle, seen>>
                    ELSE /\ bundle' = _store.table
                         /\ current_block' = block_ok.val
                         /\ pc' = "fetch"
                         /\ UNCHANGED <<txs_req, bundle_txs, tx, tx_receipt, seen>>
  /\ inflight' = RunsAfter(pc')
  /\ lastOp' = NoOp
  /\ UNCHANGED <<transactions, slashVotes, result, passVotes, replay>>

\* bundle.rs:101-121: the download (arweave.rs:165-204) and the parse.
fetch_bundle_on(outcomes) ==
  /\ pc = "fetch"
  /\ \E outcome \in outcomes :
       LET path == get_tx_data(outcome)
           items == ParsedItems(outcome)
       IN IF path.tag = "Panic" THEN Crash
          ELSE IF path.tag = "Err" \/ items = <<>>
            THEN NextBundle
          ELSE /\ pc' = "lookup"
               /\ bundle_txs' = items
               /\ UNCHANGED <<txs_req, current_block, tx, tx_receipt>>
  /\ inflight' = RunsAfter(pc')
  /\ lastOp' = NoOp
  /\ UNCHANGED <<bundle, transactions, slashVotes, result, seen, passVotes, replay>>

\* std::str::from_utf8(&tx.signature) succeeds.
Utf8Decodes(signature) == signature.kind # "not_utf8"

\* bundle.rs:196-205: the TxReceipt built from a stored row; a signature
\* that is not UTF-8 panics.
receipt_from_row(row) ==
  IF ~Utf8Decodes(row.signature)
    THEN Panic
    ELSE [tag |-> "Ok",
          receipt |-> [block |-> row.block_promised,
                       tx_id |-> row.id,
                       signature |-> row.signature]]

\* bundle.rs:194-211: the receipt of the item, from the store or from a peer.
lookup_receipt ==
  /\ pc = "lookup"
  /\ LET item == Head(bundle_txs)
         got == get_tx(transactions, item)
     IN IF got.tag = "Ok"
          THEN /\ tx' = "Ok"
               /\ LET read == receipt_from_row(got.row)
                  IN IF read.tag = "Panic"
                       THEN /\ pc' = "panicked"
                            /\ UNCHANGED <<txs_req, current_block, bundle_txs, tx_receipt>>
                       ELSE /\ tx_receipt' = Some(read.receipt)
                            /\ pc' = "settle"
                            /\ UNCHANGED <<txs_req, current_block, bundle_txs>>
          ELSE \E answers \in [1..Len(validator_peers) -> PeerAnswers(item)] :
                 LET peer_tx == tx_exists_on_peers(item, answers)
                 IN /\ tx' = "NotFound"
                    /\ tx_receipt' = IF peer_tx.tag = "Ok" THEN Some(peer_tx.receipt) ELSE None
                    /\ pc' = "settle"
                    /\ UNCHANGED <<txs_req, current_block, bundle_txs>>
  /\ inflight' = RunsAfter(pc')
  /\ lastOp' = NoOp
  /\ UNCHANGED <<bundle, transactions, slashVotes, result, seen, passVotes, replay>>

\* bundle.rs:213-242: the receipt is verified and the row inserted.
settle_receipt ==
  /\ pc = "settle"
  /\ LET item == Head(bundle_txs)
         verdict == Verdict(tx_receipt, current_block)
     IN IF verdict = "panic"
          THEN Crash /\ UNCHANGED <<transactions, seen>>
          ELSE IF verdict = "timely"
            THEN LET ins == insert_tx_in_db(transactions,
                                            NewTransaction(Unwrap(tx_receipt), item,
                                                           current_block))
                 IN IF ins.tag = "Panic"
                      THEN Crash /\ UNCHANGED <<transactions, seen>>
                      ELSE /\ transactions' = ins.table
                           /\ NextItem
                           /\ UNCHANGED seen
          ELSE /\ seen' = IF verdict = "missing" THEN seen ELSE seen \cup {verdict}
               /\ NextItem
               /\ UNCHANGED transactions
  /\ inflight' = RunsAfter(pc')
  /\ lastOp' = NoOp
  /\ UNCHANGED <<bundle, slashVotes, result, passVotes, replay>>

\* bundle.rs:76: the pass returns Ok(()).
pass_returns ==
  /\ pc = "return"
  /\ pc' = "idle"
  /\ result' = "Ok"
  /\ inflight' = inflight - 1
  /\ seen' = {}
  /\ passVotes' = 0
  /\ lastOp' = NoOp
  /\ UNCHANGED <<bundle, transactions, slashVotes, txs_req, current_block, bundle_txs,
                 tx, tx_receipt, replay>>

\* insert_tx_in_db called from outside the audit task; a collision panics
\* in the caller and leaves the table alone.
insert_tx(rows) ==
  /\ \E new_tx \in rows :
       LET r == insert_tx_in_db(transactions, new_tx)
       IN transactions' = IF r.tag = "Ok" THEN r.table ELSE transactions
  /\ lastOp' = NoOp
  /\ UNCHANGED <<bundle, slashVotes, passVars, seen, passVotes, replay, inflight>>

\* delete_txs called from outside the audit task; logged, the call and
\* what it returned are kept in lastOp.
collect(calls, logged) ==
  /\ \E call \in calls, overflow_checks \in BOOLEAN :
       LET r == delete_txs(transactions, call[1], call[2], overflow_checks)
       IN /\ transactions' = IF r.tag = "Ok" THEN r.table ELSE transactions
          /\ lastOp' = IF logged
                         THEN [op |-> "delete_txs", e |-> call[1], r |-> call[2],
                               ret |-> r.tag,
                               count |-> IF r.tag = "Ok" THEN r.count ELSE 0]
                         ELSE NoOp
  /\ UNCHANGED <<bundle, slashVotes, passVars, seen, passVotes, replay, inflight>>

\* The receipts a bundler hands out, as rows not yet audited: signed by
\* the bundler over (tx_id, block), or forged (a forged one promises the
\* first block).
ReceiptRow(tx_id, block, key) ==
  [id |-> tx_id, epoch |-> AuditEpoch, block_promised |-> block, block_actual |-> None,
   signature |-> Sign(key, tx_id, block), validated |-> FALSE, bundle_id |-> None]

ReceiptRows ==
  {ReceiptRow(t, p, BundlerKey) : t \in TxIds, p \in Blocks}
    \cup {ReceiptRow(t, 1, OtherKey) : t \in TxIds}

\* ctx.current_epoch() (queries.rs:16) while the audit runs: the epoch
\* after the one the auditor writes.
StoreEpoch == AuditEpoch + 1

\* A collection that runs beside the audit: one epoch kept, the current one.
AuditCollections == {<<StoreEpoch, 1>>}

validate_bundle == validate_bundle_on(InsertAnswers)

validate_bundler == validate_bundler_on(GatewayResponses) /\ UNCHANGED replay
fetch_bundle == fetch_bundle_on(FetchOutcomes)
receipt_stored == insert_tx(ReceiptRows)
receipts_collected == collect(AuditCollections, FALSE)

Next ==
  \/ validate_bundler
  \/ validate_bundle
  \/ fetch_bundle
  \/ lookup_receipt
  \/ settle_receipt
  \/ pass_returns
  \/ receipt_stored
  \/ receipts_collected

Spec == Init /\ [][Next]_vars

\* The store on its own: rows of every epoch, collections of every window.
EpochRows ==
  {[id |-> t, epoch |-> e, block_promised |-> 1, block_actual |-> None,
    signature |-> Sign(BundlerKey, t, 1), validated |-> FALSE, bundle_id |-> None]
   : t \in TxIds, e \in Epochs}

row_stored == insert_tx(EpochRows)
rows_collected == collect(Epochs \X (0..MaxRetention), TRUE)

NextStore ==
  \/ row_stored
  \/ rows_collected

SpecStore == Init /\ [][NextStore]_vars

\* A replayed audit: the chain state (the listing, what each listed bundle
\* downloads as, the receipts held) is fixed at the start and every pass
\* runs on it.
ChainPayloads == FetchOutcomes \ {[kind |-> "transport_error"]}

ReceiptStores ==
  {f \in UNION {[S -> ReceiptRows] : S \in SUBSET TxIds} : \A t \in DOMAIN f : f[t].id = t}

\* The rows of both tables, the epoch field left out.
StoreRows(bundles, txs) ==
  <<{bundles[b] : b \in DOMAIN bundles},
    {[id |-> txs[t].id,
      block_promised |-> txs[t].block_promised,
      block_actual |-> txs[t].block_actual,
      signature |-> txs[t].signature,
      validated |-> txs[t].validated,
      bundle_id |-> txs[t].bundle_id] : t \in DOMAIN txs}>>

InitReplay ==
  /\ bundle = <<>>
  /\ transactions \in ReceiptStores
  /\ slashVotes = 0
  /\ pc = "idle"
  /\ txs_req = <<>>
  /\ current_block = None
  /\ bundle_txs = <<>>
  /\ tx = "none"
  /\ tx_receipt = None
  /\ result = "none"
  /\ lastOp = NoOp
  /\ seen = {}
  /\ passVotes = 0
  /\ replay \in {[on |-> TRUE, listing |-> l, payload |-> p, passes |-> 0, first |-> <<>>]
                 : l \in Listings, p \in [BundleIds -> ChainPayloads]}
  /\ inflight = 0

replayed_listing ==
  /\ replay.passes < MaxPasses
  /\ validate_bundler_on({[kind |-> "status", status |-> 200, body |-> replay.listing,
                           decodes |-> TRUE]})
  /\ replay' = [replay EXCEPT !.passes = @ + 1,
                              !.first = IF replay.passes = 1
                                          THEN StoreRows(bundle, transactions)
                                          ELSE @]

replayed_fetch == fetch_bundle_on({replay.payload[Head(txs_req).id]})

\* The store of the replay executes every statement it is sent.
replayed_bundle == validate_bundle_on({"executed"})

NextReplay ==
  \/ replayed_listing
  \/ replayed_bundle
  \/ replayed_fetch
  \/ lookup_receipt
  \/ settle_receipt
  \/ pass_returns

SpecReplay == InitReplay /\ [][NextReplay]_vars

\* ------------------------------------------------------------ properties
\* The receipt a stored row stands for (bundle.rs:194-205).
ReceiptOf(row) == [block |-> row.block_promised, tx_id |-> row.id, signature |-> row.signature]

\* The signature of a row passes RSA-PSS verification under the bundler's key.
RowVerifies(row) ==
  /\ Base64UrlDecodes(row.signature)
  /\ PssVerifies([tx_id |-> row.id, block |-> row.block_promised], row.signature)

\* The exact set of epochs e, e-1, ..., e-(r-1).
EpochWindow(e, r) == {e - i : i \in 0..(r - 1)}

\* C1: every item row whose block_actual is set has block_promised <= block_actual.
NoForwardDatedInclusion ==
  \A id \in DOMAIN transactions :
    transactions[id].block_actual # None
      => transactions[id].block_promised <= Unwrap(transactions[id].block_actual)

\* A row the audit wrote, its actual block set.
AuditedRowStored ==
  \E id \in DOMAIN transactions : transactions[id].block_actual # None

\* C2: when a pass met an item whose receipt verifies but promises a block
\* above the height its bundle landed at, vote_slash was invoked at least
\* once by the end of that pass.
LateInclusionSlashed ==
  (pc = "return" /\ "late" \in seen) => passVotes >= 1

\* C3: when a pass met an item whose receipt fails verification, vote_slash
\* was invoked, no row was inserted for the forged receipt, and the pass
\* reaches its successful return.
ForgedReceiptSlashed ==
  (pc = "return" /\ "forged" \in seen)
    => /\ passVotes >= 1
       /\ \A id \in DOMAIN transactions :
            transactions[id].validated => RowVerifies(transactions[id])

\* C4: every item row with validated = true carries a signature that
\* verifies, under the bundler's key, for the row's id and block_promised.
ValidatedImpliesVerifiable ==
  \A id \in DOMAIN transactions :
    transactions[id].validated = TRUE => RowVerifies(transactions[id])

\* A row stored as validated.
ValidatedRowStored ==
  \E id \in DOMAIN transactions : transactions[id].validated = TRUE

\* C5: on a fixed chain state every pass completes, and after any further
\* pass the rows of bundle and transactions, the epoch left out, are those
\* the first pass left.
AuditIdempotent ==
  /\ pc # "panicked"
  /\ (replay.passes >= 2 /\ pc = "idle")
       => StoreRows(bundle, transactions) = replay.first

\* C6: after delete_txs(e, r) returns, the rows left are exactly the prior
\* rows whose epoch is in {e, e-1, ..., e-(r-1)}, and the number returned is
\* the number of rows deleted.
EpochGcBound ==
  [][(lastOp'.op = "delete_txs" /\ lastOp'.ret = "Ok")
       => LET kept == {id \in DOMAIN transactions :
                         transactions[id].epoch \in EpochWindow(lastOp'.e, lastOp'.r)}
          IN /\ DOMAIN transactions' = kept
             /\ \A id \in kept : transactions'[id] = transactions[id]
             /\ lastOp'.count = Cardinality(DOMAIN transactions \ kept)]_vars

\* delete_txs returned having deleted a row and kept a row.
CollectedSome ==
  /\ lastOp.op = "delete_txs"
  /\ lastOp.ret = "Ok"
  /\ lastOp.count >= 1
  /\ lastOp.r >= 2
  /\ DOMAIN transactions # {}

\* C7 as stated: delete_txs(7, 3) deletes the rows of epochs 0..3 and keeps
\* the rows of epochs 4..7; in general the rows kept are those of the
\* current epoch and of the `retention` epochs below it.
GcScenarioAsStated ==
  [][(lastOp'.op = "delete_txs" /\ lastOp'.ret = "Ok")
       => \A id \in DOMAIN transactions :
            LET epoch == transactions[id].epoch
            IN /\ (lastOp'.e = 7 /\ lastOp'.r = 3 /\ epoch \in 0..3)
                    => id \notin DOMAIN transactions'
               /\ (lastOp'.e = 7 /\ lastOp'.r = 3 /\ epoch \in 4..7)
                    => id \in DOMAIN transactions'
               /\ (id \in DOMAIN transactions'
                    <=> (lastOp'.e - lastOp'.r <= epoch /\ epoch <= lastOp'.e))]_vars

\* C7 amended: delete_txs(7, 3) deletes the rows of epochs 0..4 and keeps
\* the rows of epochs 5..7; in general the rows kept are those of the
\* current epoch and of the retention - 1 epochs below it.
GcScenario ==
  [][(lastOp'.op = "delete_txs" /\ lastOp'.ret = "Ok")
       => \A id \in DOMAIN transactions :
            LET epoch == transactions[id].epoch
            IN /\ (lastOp'.e = 7 /\ lastOp'.r = 3 /\ epoch \in 0..4)
                    => id \notin DOMAIN transactions'
               /\ (lastOp'.e = 7 /\ lastOp'.r = 3 /\ epoch \in 5..7)
                    => id \in DOMAIN transactions'
               /\ (id \in DOMAIN transactions'
                    <=> (lastOp'.e - (lastOp'.r - 1) <= epoch /\ epoch <= lastOp'.e))]_vars

\* delete_txs(7, 3) returned having deleted a row, a row of epoch 5 kept.
GcScenarioRan ==
  /\ lastOp = [op |-> "delete_txs", e |-> 7, r |-> 3, ret |-> "Ok", count |-> 1]
  /\ \E id \in DOMAIN transactions : transactions[id].epoch = 5

\* C8: the audit step on a listed transaction without a block inserts no
\* bundle row, starts no download, inserts no item row and casts no vote;
\* the loop goes on to the next bundle or to the return, and the return
\* is a success.
UnminedNotAudited ==
  [][/\ (pc = "bundle" /\ (pc' # pc \/ txs_req' # txs_req) /\ Head(txs_req).block = None)
          => /\ bundle' = bundle
             /\ transactions' = transactions
             /\ passVotes' = passVotes
             /\ slashVotes' = slashVotes
             /\ txs_req' = Tail(txs_req)
             /\ pc' \in {"bundle", "return"}
     /\ (pc = "return" /\ pc' # pc) => (pc' = "idle" /\ result' = "Ok")]_vars

\* A pass at its return that skipped an unmined bundle.
UnminedSkipped == pc = "return" /\ "unmined" \in seen

\* C9: when the pass so far met nothing but timely receipts and every item
\* left in the bundle has one, settling an item with a timely receipt
\* leaves the bundle row at height h, the item row validated with
\* block_actual = h, no vote cast, and the pass running.
HappyPath ==
  [][(/\ pc = "settle"
      /\ pc' # pc
      /\ seen = {}
      /\ Verdict(tx_receipt, current_block) = "timely"
      /\ \A i \in 2..Len(bundle_txs) :
           /\ bundle_txs[i] \in DOMAIN transactions
           /\ Verdict(Some(ReceiptOf(transactions[bundle_txs[i]])), current_block) = "timely")
       => LET item == Head(bundle_txs)
              b == Head(txs_req)
          IN /\ pc' # "panicked"
             /\ b.id \in DOMAIN bundle'
             /\ bundle'[b.id].block_height = Unwrap(current_block)
             /\ item \in DOMAIN transactions'
             /\ transactions'[item].validated = TRUE
             /\ transactions'[item].block_actual = current_block
             /\ passVotes' = 0]_vars

\* C10: settling an item whose receipt verifies and promises a block p below
\* the height h of its bundle leaves an item row with block_promised = p and
\* block_actual = h, and invokes vote_slash exactly once.
LateInclusionScenario ==
  [][(/\ pc = "settle"
      /\ pc' # pc
      /\ tx_receipt # None
      /\ verify_tx_receipt(Unwrap(tx_receipt)) = [tag |-> "Ok", val |-> TRUE]
      /\ Unwrap(tx_receipt).block < Unwrap(current_block))
       => LET item == Head(bundle_txs)
          IN /\ item \in DOMAIN transactions'
             /\ transactions'[item].block_promised = Unwrap(tx_receipt).block
             /\ transactions'[item].block_actual = current_block
             /\ passVotes' = passVotes + 1]_vars

\* The scheduler under fair scheduling: a step of the audit task that can
\* be taken is taken.
SpecCron ==
  /\ Init
  /\ [][Next]_vars
  /\ WF_vars(validate_bundler)
  /\ WF_vars(validate_bundle)
  /\ WF_vars(fetch_bundle)
  /\ WF_vars(lookup_receipt)
  /\ WF_vars(settle_receipt)
  /\ WF_vars(pass_returns)

\* C11: whatever fails in a pass, validate_bundler completes and hands
\* neither an error nor a crash to the scheduler.
NoErrorEscapes == pc # "panicked" /\ result \in {"none", "Ok"}

\* C12: at most one run of the audit task body is in progress.
PassesNeverOverlap == inflight <= 1

\* A download in progress in a pass that follows an earlier one: the
\* second listed bundle has its row already.
LaterPassDownloading ==
  /\ pc = "fetch"
  /\ inflight = 1
  /\ Len(txs_req) = 2
  /\ Cardinality(DOMAIN bundle) = 2

\* C13: under fair scheduling the body of the audit task runs again and
\* again, whatever the last run came to.
CronKeepsTicking == []<>(<<validate_bundler>>_vars)

\* ------------------------------------------------- the calls on their own
\* Each function applied to inputs of its own; lastOp keeps the call and
\* what it returned.

\* The peers queried by tx_exists_on_peers before it returns (bundle.rs:248-264).
PeersAsked(answers) ==
  LET hits == {i \in 1..Len(validator_peers) :
                 answers[i].kind = "status" /\ answers[i].ok}
  IN IF hits = {} THEN Len(validator_peers)
     ELSE CHOOSE i \in hits : \A j \in hits : i <= j

\* tx_exists_on_peers while MaxPeers peers are configured, each with its answer.
peers_asked ==
  /\ \E tx_id \in TxIds : \E answers \in [1..MaxPeers -> PeerAnswers(tx_id)] :
       lastOp' = [op |-> "tx_exists_on_peers", tx_id |-> tx_id, answers |-> answers,
                  ret |-> tx_exists_on_peers(tx_id, answers),
                  asked |-> PeersAsked(answers)]
  /\ UNCHANGED <<bundle, transactions, slashVotes, passVars, seen, passVotes, replay,
                 inflight>>

NewBundles == [id : BundleIds, owner_address : {BundlerAddress}, block_height : Blocks]

\* insert_bundle_in_db called whether or not a row with the id exists.
bundle_inserted ==
  /\ \E new_bundle \in NewBundles :
       LET r == insert_bundle_in_db(bundle, new_bundle)
       IN /\ bundle' = IF r.tag = "Ok" THEN r.table ELSE bundle
          /\ lastOp' = [op |-> "insert_bundle_in_db", id |-> new_bundle.id, ret |-> r.tag]
  /\ UNCHANGED <<transactions, slashVotes, passVars, seen, passVotes, replay, inflight>>

\* What get_transactions can return: an error, or at most MaxItems
\* outstanding transactions (current_block, expected_block).
OutstandingTxs == [current_block : Blocks, expected_block : Blocks]

OutstandingResults ==
  {[tag |-> "Err"]}
    \cup {[tag |-> "Ok", txs |-> l] : l \in UNION {[1..n -> OutstandingTxs] : n \in 0..MaxItems}}

\* bundle.rs validate_transactions: for each transaction, whether vote_slash is called.
validate_transactions(res) ==
  LET txs == IF res.tag = "Ok" THEN res.txs ELSE <<>>
  IN [i \in 1..Len(txs) |->
        LET block_ok == txs[i].current_block < txs[i].expected_block
        IN block_ok]

VotesCast(votes) == Cardinality({i \in DOMAIN votes : votes[i]})

outstanding_audited ==
  /\ \E res \in OutstandingResults :
       LET votes == validate_transactions(res)
       IN /\ slashVotes + VotesCast(votes) <= MaxVotes
          /\ slashVotes' = slashVotes + VotesCast(votes)
          /\ lastOp' = [op |-> "validate_transactions", res |-> res, votes |-> votes]
  /\ UNCHANGED <<bundle, transactions, passVars, seen, passVotes, replay, inflight>>

gateway_listed ==
  /\ \E response \in GatewayResponses :
       lastOp' = [op |-> "get_latest_transactions", response |-> response,
                  ret |-> get_latest_transactions(response)]
  /\ UNCHANGED <<bundle, transactions, slashVotes, passVars, seen, passVotes, replay,
                 inflight>>

\* The receipts verify_tx_receipt can be given: the signature is a String.
Receipts ==
  [tx_id : TxIds, block : Blocks,
   signature : {Sign(k, t, b) : k \in {BundlerKey, OtherKey}, t \in TxIds, b \in Blocks}
                 \cup {NotBase64}]

receipt_verified ==
  /\ \E receipt \in Receipts :
       lastOp' = [op |-> "verify_tx_receipt", receipt |-> receipt,
                  ret |-> verify_tx_receipt(receipt)]
  /\ UNCHANGED <<bundle, transactions, slashVotes, passVars, seen, passVotes, replay,
                 inflight>>

\* The rows get_tx can return: the signature column is a byte array.
SignatureRows ==
  ReceiptRows \cup {[ReceiptRow(t, p, BundlerKey) EXCEPT !.signature = NotUtf8]
                    : t \in TxIds, p \in Blocks}

row_read ==
  /\ \E row \in SignatureRows :
       lastOp' = [op |-> "receipt_from_row", row |-> row, ret |-> receipt_from_row(row)]
  /\ UNCHANGED <<bundle, transactions, slashVotes, passVars, seen, passVotes, replay,
                 inflight>>

receipt_verified_as ==
  /\ \E config \in CliConfigs : \E receipt \in Receipts :
       lastOp' = [op |-> "verify_tx_receipt_as", config |-> config, receipt |-> receipt,
                  ret |-> verify_tx_receipt_as(config, receipt)]
  /\ UNCHANGED <<bundle, transactions, slashVotes, passVars, seen, passVotes, replay,
                 inflight>>

NextCalls ==
  \/ peers_asked
  \/ bundle_inserted
  \/ outstanding_audited
  \/ gateway_listed
  \/ receipt_verified
  \/ row_read
  \/ receipt_verified_as

SpecCalls == Init /\ [][NextCalls]_vars

\* C14: with peers configured, they are asked in their declared order up to
\* the first 2xx answer, whose receipt is returned; TxNotFound is returned
\* only when every configured peer was asked and none answered 2xx.
PeerFallbackOrder ==
  lastOp.op = "tx_exists_on_peers"
    => LET hits == {i \in 1..MaxPeers :
                      lastOp.answers[i].kind = "status" /\ lastOp.answers[i].ok}
           first == CHOOSE i \in hits : \A j \in hits : i <= j
       IN IF hits = {}
            THEN lastOp.ret = [tag |-> "Err", err |-> "TxNotFound"] /\ lastOp.asked = MaxPeers
            ELSE /\ lastOp.ret = [tag |-> "Ok", receipt |-> lastOp.answers[first].receipt]
                 /\ lastOp.asked = first

\* C15: insert_bundle_in_db on an id that already has a row reports
\* success and leaves the row as it was.
InsertBundleRaceSafe ==
  [][(lastOp'.op = "insert_bundle_in_db" /\ lastOp'.id \in DOMAIN bundle)
       => (lastOp'.ret = "Ok" /\ bundle' = bundle)]_vars

\* C16: validate_transactions calls vote_slash for a transaction exactly
\* when current_block >= expected_block.
OutstandingSlashedWhenDue ==
  lastOp.op = "validate_transactions"
    => \A i \in DOMAIN lastOp.votes :
         lastOp.votes[i] <=> (lastOp.res.txs[i].current_block >= lastOp.res.txs[i].expected_block)

\* C17: get_latest_transactions maps 400, 404, 500, 504 and any other
\* non-2xx status to its error kind, and a failed connection to UnknownErr.
ChainErrorMapping ==
  lastOp.op = "get_latest_transactions"
    => LET response == lastOp.response
           Is(err) == lastOp.ret = [tag |-> "Err", err |-> err]
       IN IF response.kind = "transport_error" THEN Is("UnknownErr")
          ELSE /\ response.status = 400 => Is("MalformedQuery")
               /\ response.status = 404 => Is("TxsNotFound")
               /\ response.status = 500 => Is("InternalServerError")
               /\ response.status = 504 => Is("GatewayTimeout")
               /\ response.status \notin {200, 400, 404, 500, 504} => Is("UnknownErr")

\* C18: verify_tx_receipt returns true iff the signature verifies, and
\* false, neither an error nor a crash, for every other signature, one
\* that is not base64url included.
VerifierOutcomes ==
  lastOp.op = "verify_tx_receipt"
    => LET receipt == lastOp.receipt
       IN lastOp.ret =
            [tag |-> "Ok",
             val |-> /\ Base64UrlDecodes(receipt.signature)
                     /\ PssVerifies([tx_id |-> receipt.tx_id, block |-> receipt.block],
                                    receipt.signature)]

\* C19: the row an audit step inserts for an item of bundle B carries the
\* receipt's block as block_promised, B's height as block_actual,
\* validated = true, B's id as bundle_id and the store's current epoch.
InsertedRowFields ==
  [][(pc = "settle" /\ pc' # pc /\ transactions' # transactions)
       => LET item == Head(bundle_txs)
              receipt == Unwrap(tx_receipt)
              row == transactions'[item]
          IN /\ row.id = receipt.tx_id
             /\ row.block_promised = receipt.block
             /\ row.block_actual = current_block
             /\ row.validated = TRUE
             /\ row.bundle_id = Some(Head(txs_req).id)
             /\ row.epoch = StoreEpoch]_vars

\* C20: the audit calls insert_tx_in_db for an item only when the get_tx
\* lookup made for it reported NotFound, and never while a row with the
\* item's id is in the store.
NoKeyCollision ==
  [][(pc = "settle" /\ pc' # pc /\ Verdict(tx_receipt, current_block) = "timely")
       => (tx = "NotFound" /\ Head(bundle_txs) \notin DOMAIN transactions)]_vars

\* C21: a download that fails ends the work on its bundle and nothing
\* else: no item of the bundle is processed, the loop goes on to the next
\* listed bundle, and the pass stays on its way to a successful return.
DownloadFailureNonFatal ==
  [][(pc = "fetch" /\ pc' # pc /\ pc' # "lookup")
       => /\ pc' \in {"bundle", "return"}
          /\ txs_req' = Tail(txs_req)
          /\ transactions' = transactions
          /\ passVotes' = passVotes]_vars

\* C22: when the store rejects the INSERT of a bundle row, the pass skips
\* that bundle (no download, no parsing, no item) and goes on to the next
\* listed bundle.
RejectedInsertSkipsBundle ==
  [][(/\ pc = "bundle"
      /\ pc' # pc
      /\ check_bundle_block(Head(txs_req)).val # None
      /\ Head(txs_req).id \notin DOMAIN bundle')
       => /\ pc' \in {"bundle", "return"}
          /\ txs_req' = Tail(txs_req)]_vars

\* C23: bundle rows are write-once.  A row is created only by the audit of
\* a mined chain transaction, with that transaction's id, the bundler's
\* address and the height observed; a row that exists is never changed or
\* deleted afterwards, whatever height the gateway reports later.
BundleRowsWriteOnce ==
  [][/\ \A id \in DOMAIN bundle : id \in DOMAIN bundle' /\ bundle'[id] = bundle[id]
     /\ \A id \in DOMAIN bundle' \ DOMAIN bundle :
          /\ pc = "bundle"
          /\ Head(txs_req).id = id
          /\ Head(txs_req).block # None
          /\ bundle'[id] = [id |-> id,
                            owner_address |-> BundlerAddress,
                            block_height |-> Unwrap(Head(txs_req).block)]]_vars

\* A later pass has gone past the row of a bundle that the gateway now
\* reports at another height.
BundleRowOutlivesReport ==
  /\ pc = "fetch"
  /\ Head(txs_req).id \in DOMAIN bundle
  /\ bundle[Head(txs_req).id].block_height # Unwrap(Head(txs_req).block)

\* The listed bundles that are mined and whose payload does not parse.
MalformedListed ==
  {i \in 1..Len(replay.listing) :
     /\ replay.listing[i].block # None
     /\ replay.payload[replay.listing[i].id].kind = "corrupt"}

\* C24: a bundle whose payload does not parse is not slashable.  The pass
\* inserts no item row and casts no slash vote for it and goes on to the
\* next listed bundle, and a pass that returns returns success.
MalformedBundleNotSlashable ==
  /\ [][(/\ pc = "fetch"
         /\ pc' # pc
         /\ replay.payload[Head(txs_req).id].kind = "corrupt")
          => /\ pc' \in {"bundle", "return"}
             /\ txs_req' = Tail(txs_req)
             /\ transactions' = transactions
             /\ slashVotes' = slashVotes
             /\ passVotes' = passVotes]_vars
  /\ []((pc = "idle" /\ replay.passes > 0 /\ MalformedListed # {}) => result = "Ok")

\* A pass over a listing with a mined bundle that does not parse has returned.
MalformedBundlePassed ==
  /\ pc = "idle"
  /\ replay.passes > 0
  /\ MalformedListed # {}
  /\ result = "Ok"

\* C25: an item whose receipt is found neither in the store nor at a peer
\* is skipped.  No row is inserted and no vote is cast for it, and the
\* pass goes on to the remaining items of the same bundle.
MissingReceiptSkipped ==
  [][(pc = "settle" /\ pc' # pc /\ tx_receipt = None)
       => /\ transactions' = transactions
          /\ slashVotes' = slashVotes
          /\ passVotes' = passVotes
          /\ IF Len(bundle_txs) > 1
               THEN pc' = "lookup" /\ bundle_txs' = Tail(bundle_txs) /\ txs_req' = txs_req
               ELSE pc' \in {"bundle", "return"}]_vars

\* The pass is at the second item of a bundle whose first item has no receipt.
SecondItemAfterMissing ==
  /\ pc = "lookup"
  /\ Len(bundle_txs) = 1
  /\ LET payload == replay.payload[Head(txs_req).id]
     IN /\ payload.kind = "bundle"
        /\ Len(payload.items) = 2
        /\ payload.items[1] \notin DOMAIN transactions

\* C26: malformed upstream data never panics.  A gateway body that does
\* not decode as the GraphQL result and a stored signature that is not
\* valid UTF-8 each give an error value to the caller.
MalformedDataIsAnError ==
  /\ (/\ lastOp.op = "get_latest_transactions"
      /\ lastOp.response.kind = "status"
      /\ lastOp.response.status = 200
      /\ ~lastOp.response.decodes)
       => lastOp.ret.tag = "Err"
  /\ (lastOp.op = "receipt_from_row" /\ ~Utf8Decodes(lastOp.row.signature))
       => lastOp.ret.tag = "Err"

\* C27: in both configuration modes (JWK file or modulus) the verifier
\* checks a receipt against the key the process is configured with, and
\* does not fail for lack of the other option.
VerifierUsesConfiguredKey ==
  (lastOp.op = "verify_tx_receipt_as" /\ Base64UrlDecodes(lastOp.receipt.signature))
    => lastOp.ret =
         [tag |-> "Ok",
          val |-> /\ lastOp.receipt.signature.signer = bundler_jwk(lastOp.config)
                  /\ lastOp.receipt.signature.tx_id = lastOp.receipt.tx_id
                  /\ lastOp.receipt.signature.block = lastOp.receipt.block]

GcNearEpochZero ==
  [][(lastOp'.op = "delete_txs" /\ lastOp'.r > lastOp'.e + 1)
       => /\ lastOp'.ret = "Ok"
          /\ \A id \in DOMAIN transactions :
               /\ transactions[id].epoch \in 0..lastOp'.e
                    => (id \in DOMAIN transactions' /\ transactions'[id] = transactions[id])
               /\ id \notin DOMAIN transactions' => transactions[id].epoch > lastOp'.e]_vars
====
